---- MODULE Spec2Model ----
(***************************************************************************)
(* Model of the in-memory code graph store of src/database.py              *)
(* (class Neo4jDatabase): a NetworkX MultiDiGraph with two secondary       *)
(* indices, the three write operations and the two read operations.        *)
(*                                                                         *)
(* Python strings are modelled as sequences of one-character strings, so   *)
(* that the f-string identities of _class_node_id / _method_node_id are    *)
(* real concatenations (two different inputs may yield the same identity)  *)
(* and so that names can be compared the way Python compares str values.   *)
(*                                                                         *)
(* The graph is the function nodes (node id -> attribute dict) and the bag *)
(* edges of edge records: a MultiDiGraph keeps one record per add_edge     *)
(* call.  The order in which networkx iterates nodes and edges is not      *)
(* kept; it only decides the order of returned records with equal sort     *)
(* keys, for which SeqOf picks a fixed enumeration.                        *)
(*                                                                         *)
(* In Spec every operation of the store is one atomic action.  SpecQuery   *)
(* adds the compatibility layer for queries, SpecAll has every operation   *)
(* of the store with well-formed inputs, SpecRecords the type records      *)
(* that are not well-formed, SpecThreads runs the write operations one     *)
(* write at a time in several threads, and SpecBatch is the batch          *)
(* ingestion of java_agent.py on top of the store.                         *)
(*                                                                         *)
(* The inputs are dicts with str values, for which no statement of the     *)
(* operations raises; the one except branch that is taken is the one of    *)
(* create_class_node for a name that cannot be a dict key.                 *)
(***************************************************************************)
EXTENDS Integers, Sequences, FiniteSets, Bags, TLC

VARIABLES
    nodes,              \* self.graph nodes: node id -> attribute dict
    edges,              \* self.graph edges: the bag of edge records [u, v, data]
    class_key_index,    \* self._class_key_index: "package::name" -> node id
    class_name_index,   \* self._class_name_index: name -> list of node ids
    ret,                \* the last call: [op, value], value being what it returned
    frames              \* thread -> the call it is in the middle of: [op, pc, args]

store == <<nodes, edges, class_key_index, class_name_index>>
vars == <<nodes, edges, class_key_index, class_name_index, ret, frames>>

---------------------------------------------------------------------------
(* Bounds and input sets *)

MaxEdges == 2       \* calls that add an edge are taken while the graph has fewer edges
MaxDepth == 2       \* max_depth arguments range over 0..MaxDepth
MaxThreads == 2     \* threads that call into the store at the same time

Names == { <<"A">>, <<"p", ".", "A">> }
Packages == { <<>>, <<"p">> }

\* class_info dicts; the remaining keys (modifiers, extends, implements,
\* file_path, line_number) are copied by the same class_info.get(k) as
\* documentation and are represented by it.
ClassInfos ==
    [name : Names, package : Packages, documentation : {<<"x">>}]
        \cup {[name |-> <<"A">>, package |-> <<>>, documentation |-> <<"y">>]}

\* class_info dicts that are not well-formed records: the name is missing,
\* the name is a list
MalformedClassInfos ==
    { [package |-> <<"p">>, documentation |-> <<"x">>],
      [name |-> <<"<list>">>, package |-> <<>>, documentation |-> <<"x">>] }

\* method_info dicts; return_type, parameters, modifiers, line_number and
\* body are copied like documentation.
MethodInfo(class_name, package, method_name, documentation) ==
    [class_name |-> class_name, package |-> package, method_name |-> method_name,
     documentation |-> documentation]

MethodInfos ==
    { MethodInfo(<<"A">>, <<>>, <<"m">>, <<"x">>),
      MethodInfo(<<"A">>, <<>>, <<"n">>, <<"x">>),
      MethodInfo(<<"A">>, <<"p">>, <<"m">>, <<"y">>),
      MethodInfo(<<"p", ".", "A">>, <<>>, <<"m">>, <<"x">>) }

\* arguments of create_dependency_relationship
DependencyArg(from_class, package_from, to_class, package_to) ==
    [from_class |-> from_class, to_class |-> to_class, dependency_type |-> <<"u">>,
     package_from |-> package_from, package_to |-> package_to]

DependencyArgs ==
    { DependencyArg(<<"A">>, <<>>, <<"A">>, <<"p">>),
      DependencyArg(<<"A">>, <<"p">>, <<"p", ".", "A">>, <<"p">>),
      DependencyArg(<<"p", ".", "A">>, <<>>, <<"p", ".", "A">>, <<"p">>),
      DependencyArg(<<"p", ".", "A">>, <<"p">>, <<"A">>, <<>>),
      DependencyArg(<<"A">>, <<>>, <<"A">>, <<>>) }

---------------------------------------------------------------------------
(* Python values *)

None == <<"<None>">>

Range(s) == { s[i] : i \in DOMAIN s }

\* d.get(k, default)
Get(d, k, default) == IF k \in DOMAIN d THEN d[k] ELSE default

\* d[k] = v
Put(d, k, v) == [x \in (DOMAIN d) \cup {k} |-> IF x = k THEN v ELSE d[x]]

\* ord(c) of the characters that occur in names
Ord(c) == CASE c = "." -> 46
            [] c = ":" -> 58
            [] c = "A" -> 65
            [] c = "m" -> 109
            [] c = "n" -> 110
            [] c = "p" -> 112
            [] c = "x" -> 120
            [] c = "y" -> 121

\* a < b for str values: lexicographic by code point
RECURSIVE StrLt(_, _)
StrLt(a, b) ==
    IF b = <<>> THEN FALSE
    ELSE IF a = <<>> THEN TRUE
    ELSE IF Ord(Head(a)) # Ord(Head(b)) THEN Ord(Head(a)) < Ord(Head(b))
    ELSE StrLt(Tail(a), Tail(b))

StrLeq(a, b) == a = b \/ StrLt(a, b)

\* x or ""
OrEmpty(x) == IF x = None THEN <<>> ELSE x

\* the list [], a value that is not a str and cannot be a dict key
EmptyList == <<"<list>">>

\* hash(x) does not raise TypeError
hashable(x) == x # EmptyList

\* str(x), as an f-string formats x
str(x) == CASE x = EmptyList -> <<"[", "]">>
            [] x = None -> <<"N", "o", "n", "e">>
            [] OTHER -> x

\* bool(x)
truthy(x) == x \notin { <<>>, None, EmptyList }

---------------------------------------------------------------------------
(* Identity scheme *)

class_node_id(name, package) ==
    IF truthy(package)
    THEN <<"c", "l", "a", "s", "s", ":", ":">> \o str(package) \o <<".">> \o str(name)
    ELSE <<"c", "l", "a", "s", "s", ":", ":">> \o str(name)

method_node_id(class_name, method_name) ==
    <<"m", "e", "t", "h", "o", "d", ":", ":">> \o class_name \o <<":", ":">> \o method_name

\* key = f"{package}::{name}"
class_key(name, package) == str(package) \o <<":", ":">> \o str(name)

---------------------------------------------------------------------------
(* networkx.MultiDiGraph primitives *)

\* variant: the attributes of an existing node are kept (insert-only)
add_node_keep(g, n, attrs) ==
    Put(g, n, IF n \in DOMAIN g THEN g[n] @@ attrs ELSE attrs)

\* G.add_node(n, **attrs): creates the node or updates its attribute dict
add_node(g, n, attrs) ==
    Put(g, n, IF n \in DOMAIN g THEN attrs @@ g[n] ELSE attrs)

\* node part of G.add_edge(u, v, ...): missing endpoints are created empty
add_edge_nodes(g, u, v) ==
    LET g1 == IF u \in DOMAIN g THEN g ELSE Put(g, u, <<>>)
    IN  IF v \in DOMAIN g1 THEN g1 ELSE Put(g1, v, <<>>)

\* variant: an edge record that is already there is not added again
add_edge_once(es, u, v, data) ==
    IF BagIn([u |-> u, v |-> v, data |-> data], es) THEN es
    ELSE es (+) SetToBag({[u |-> u, v |-> v, data |-> data]})

\* edge part of G.add_edge(u, v, **data): always one more edge record
add_edge(es, u, v, data) == es (+) SetToBag({[u |-> u, v |-> v, data |-> data]})

\* the bound on the number of edge records
EdgeRoom == BagCardinality(edges) < MaxEdges

---------------------------------------------------------------------------
(* Threads *)

Threads == 1..MaxThreads

\* no call in progress
Idle == [op |-> "idle", pc |-> 0, args |-> <<>>]

---------------------------------------------------------------------------
(* Initial state: Neo4jDatabase.__init__ *)

Init ==
    /\ nodes = <<>>
    /\ edges = EmptyBag
    /\ class_key_index = <<>>
    /\ class_name_index = <<>>
    /\ ret = [op |-> "__init__", value |-> <<>>]
    /\ frames = [t \in Threads |-> Idle]

---------------------------------------------------------------------------
(* Write operations *)

\* variant: the node id is appended without the membership test
name_index_append_always(entry, node_id) == Append(entry, node_id)

\* variant: the entry is replaced by the node id
name_index_append_replace(entry, node_id) == <<node_id>>

\* if node_id not in self._class_name_index[name]: ...append(node_id)
name_index_append(entry, node_id) ==
    IF node_id \notin Range(entry) THEN Append(entry, node_id) ELSE entry

\* variant: an existing node is removed and created again, which drops its
\* edges
create_class_node_recreate(class_info) ==
    LET name == Get(class_info, "name", <<>>)
        package == Get(class_info, "package", <<>>)
        node_id == class_node_id(name, package)
        key == class_key(name, package)
        entry == Get(class_name_index, name, <<>>)
        kept == { e \in BagToSet(edges) : e.u # node_id /\ e.v # node_id }
    IN  /\ ret' = [op |-> "create_class_node", value |-> hashable(name)]
        /\ nodes' = Put(nodes, node_id,
                        [label |-> "Class", name |-> name, package |-> package,
                         documentation |-> Get(class_info, "documentation", None)])
        /\ edges' = [e \in kept |-> edges[e]]
        /\ class_key_index' = Put(class_key_index, key, node_id)
        /\ class_name_index' =
               IF hashable(name)
               THEN Put(class_name_index, name, name_index_append(entry, node_id))
               ELSE class_name_index

create_class_node(class_info) ==
    LET name == Get(class_info, "name", <<>>)
        package == Get(class_info, "package", <<>>)
        node_id == class_node_id(name, package)
        key == class_key(name, package)
        entry == Get(class_name_index, name, <<>>)
    IN  IF hashable(name)
        THEN /\ ret' = [op |-> "create_class_node", value |-> TRUE]
             /\ nodes' = add_node(nodes, node_id,
                                  [label |-> "Class", name |-> name, package |-> package,
                                   documentation |-> Get(class_info, "documentation", None)])
             /\ class_key_index' = Put(class_key_index, key, node_id)
             /\ class_name_index' =
                    Put(class_name_index, name, name_index_append(entry, node_id))
             /\ UNCHANGED edges
        ELSE \* setdefault(name, []) raises TypeError: the node and the
             \* exact-match entry are written, the except branch returns False
             /\ ret' = [op |-> "create_class_node", value |-> FALSE]
             /\ nodes' = add_node(nodes, node_id,
                                  [label |-> "Class", name |-> name, package |-> package,
                                   documentation |-> Get(class_info, "documentation", None)])
             /\ class_key_index' = Put(class_key_index, key, node_id)
             /\ UNCHANGED <<edges, class_name_index>>

\* variant: the owner check is skipped
owner_missing_never(g, class_id) == FALSE

\* if class_node_id not in self.graph
owner_missing(g, class_id) == class_id \notin DOMAIN g

\* variant: the attributes of an existing method node are kept
create_method_node_keep(method_info) ==
    LET class_name == Get(method_info, "class_name", <<>>)
        package == Get(method_info, "package", <<>>)
        method_name == Get(method_info, "method_name", <<>>)
        class_id == class_node_id(class_name, package)
        method_id == method_node_id(class_name, method_name)
    IN  IF owner_missing(nodes, class_id)
        THEN /\ ret' = [op |-> "create_method_node", value |-> FALSE]
             /\ UNCHANGED store
        ELSE /\ ret' = [op |-> "create_method_node", value |-> TRUE]
             /\ nodes' = add_edge_nodes(
                            add_node_keep(nodes, method_id,
                                          [label |-> "Method", name |-> method_name,
                                           class_name |-> class_name,
                                           documentation |-> Get(method_info, "documentation", None)]),
                            class_id, method_id)
             /\ edges' = add_edge(edges, class_id, method_id, [type |-> "HAS_METHOD"])
             /\ UNCHANGED <<class_key_index, class_name_index>>

create_method_node(method_info) ==
    LET class_name == Get(method_info, "class_name", <<>>)
        package == Get(method_info, "package", <<>>)
        method_name == Get(method_info, "method_name", <<>>)
        class_id == class_node_id(class_name, package)
        method_id == method_node_id(class_name, method_name)
    IN  IF owner_missing(nodes, class_id)
        THEN /\ ret' = [op |-> "create_method_node", value |-> FALSE]
             /\ UNCHANGED store
        ELSE /\ ret' = [op |-> "create_method_node", value |-> TRUE]
             /\ nodes' = add_edge_nodes(
                            add_node(nodes, method_id,
                                     [label |-> "Method", name |-> method_name,
                                      class_name |-> class_name,
                                      documentation |-> Get(method_info, "documentation", None)]),
                            class_id, method_id)
             /\ edges' = add_edge(edges, class_id, method_id, [type |-> "HAS_METHOD"])
             /\ UNCHANGED <<class_key_index, class_name_index>>

\* variant: the call is refused only when both endpoints are missing
endpoint_missing_both(g, c1, c2) == c1 \notin DOMAIN g /\ c2 \notin DOMAIN g

\* variant: only the source endpoint is tested
endpoint_missing_source(g, c1, c2) == c1 \notin DOMAIN g

\* if c1 not in self.graph or c2 not in self.graph
endpoint_missing(g, c1, c2) == c1 \notin DOMAIN g \/ c2 \notin DOMAIN g

create_dependency_relationship(a) ==
    LET c1 == class_node_id(a.from_class, a.package_from)
        c2 == class_node_id(a.to_class, a.package_to)
    IN  IF endpoint_missing(nodes, c1, c2)
        THEN /\ ret' = [op |-> "create_dependency_relationship", value |-> FALSE]
             /\ UNCHANGED store
        ELSE /\ ret' = [op |-> "create_dependency_relationship", value |-> TRUE]
             /\ nodes' = add_edge_nodes(nodes, c1, c2)
             /\ edges' = add_edge(edges, c1, c2,
                                  [type |-> "DEPENDS_ON", dependency_type |-> a.dependency_type])
             /\ UNCHANGED <<class_key_index, class_name_index>>

---------------------------------------------------------------------------
(* networkx traversal primitives *)

\* an arbitrary but fixed enumeration of a finite set (a dict or adjacency
\* iteration order that no result depends on except among equal sort keys)
RECURSIVE SeqOf(_)
SeqOf(S) ==
    IF S = {} THEN <<>>
    ELSE LET x == CHOOSE y \in S : TRUE
         IN  <<x>> \o SeqOf(S \ {x})

\* variant: the graph is searched along the direction of its edges
Adj_successors(es, v) == { e.v : e \in { x \in BagToSet(es) : x.u = v } }

\* adjacency of v in G.to_undirected(): neighbours in either direction
Adj(es, v) ==
    { e.v : e \in { x \in BagToSet(es) : x.u = v } }
        \cup { e.u : e \in { x \in BagToSet(es) : x.v = v } }

\* breadth-first levels: lengths maps every node seen so far to its level
RECURSIVE Levels(_, _, _, _, _)
Levels(es, thislevel, lengths, level, cutoff) ==
    IF thislevel = {} \/ ~(cutoff > level) THEN lengths
    ELSE LET nextlevel == UNION { Adj(es, v) : v \in thislevel } \ DOMAIN lengths
         IN  Levels(es, nextlevel, lengths @@ [w \in nextlevel |-> level + 1],
                    level + 1, cutoff)

\* nx.single_source_shortest_path_length(ug, source, cutoff):
\* node -> hop count, for the nodes within cutoff hops of source
single_source_shortest_path_length(es, source, cutoff) ==
    Levels(es, {source}, (source :> 0), 0, cutoff)

\* G.out_edges(u, data=True): one item per edge record, parallel edges included
RECURSIVE Repeat(_, _)
Repeat(x, n) == IF n = 0 THEN <<>> ELSE <<x>> \o Repeat(x, n - 1)

RECURSIVE Expand(_, _)
Expand(es, s) ==
    IF s = <<>> THEN <<>>
    ELSE Repeat(Head(s), CopiesIn(Head(s), es)) \o Expand(es, Tail(s))

out_edges(es, u) == Expand(es, SeqOf({ e \in BagToSet(es) : e.u = u }))

---------------------------------------------------------------------------
(* find_related_classes *)

\* variant: the start node itself is not skipped
RelatedKept_with_start(g, start_id, lengths) ==
    { n \in DOMAIN lengths : Get(g[n], "label", None) = "Class" }

\* the items of lengths that pass "if node_id == start_id: continue" and
\* "if node_data.get("label") != "Class": continue"
RelatedKept(g, start_id, lengths) ==
    { n \in DOMAIN lengths :
          /\ n # start_id
          /\ Get(g[n], "label", None) = "Class" }

\* variant: a later start node always overwrites the record
RelatedBetter_overwrite(results, kept, lengths) == kept

\* the kept items that pass
\* "if key not in results or dist < results[key]["distance"]"
RelatedBetter(results, kept, lengths) ==
    { n \in kept : n \notin DOMAIN results \/ lengths[n] < results[n].distance }

\* the loop "for node_id, dist in lengths.items()" for one start_id
RelatedVisit(g, results, start_id, lengths) ==
    LET better == RelatedBetter(results, RelatedKept(g, start_id, lengths), lengths)
    IN  [n \in better |-> [name |-> Get(g[n], "name", None),
                           package |-> Get(g[n], "package", None),
                           distance |-> lengths[n]]] @@ results

\* the loop "for start_id in candidates"
RECURSIVE RelatedResults(_, _, _, _, _)
RelatedResults(g, es, results, candidates, max_depth) ==
    IF candidates = <<>> THEN results
    ELSE RelatedResults(g, es,
             RelatedVisit(g, results, Head(candidates),
                          single_source_shortest_path_length(es, Head(candidates), max_depth)),
             Tail(candidates), max_depth)

\* variant: the sort key is the name alone
RelatedKeyLeq_name_only(r, s) == StrLeq(OrEmpty(r.name), OrEmpty(s.name))

\* key=lambda r: (r["distance"], r["name"] or "")
RelatedKeyLeq(r, s) ==
    \/ r.distance < s.distance
    \/ r.distance = s.distance /\ StrLeq(OrEmpty(r.name), OrEmpty(s.name))

\* sorted() is stable: x goes behind every element whose key is <= its own
RECURSIVE RelatedInsert(_, _)
RelatedInsert(x, s) ==
    IF s = <<>> THEN <<x>>
    ELSE IF RelatedKeyLeq(Head(s), x) THEN <<Head(s)>> \o RelatedInsert(x, Tail(s))
    ELSE <<x>> \o s

RECURSIVE RelatedSorted(_)
RelatedSorted(s) ==
    IF s = <<>> THEN <<>>
    ELSE RelatedInsert(s[Len(s)], RelatedSorted(SubSeq(s, 1, Len(s) - 1)))

\* the results dict of find_related_classes before sorting: node id -> record
RelatedDict(g, es, name_index, class_name, max_depth) ==
    RelatedResults(g, es, <<>>, Get(name_index, class_name, <<>>), max_depth)

\* variant: the search stops one hop early
FindRelated_short(g, es, name_index, class_name, max_depth) ==
    LET results == RelatedDict(g, es, name_index, class_name, max_depth - 1)
        keys == SeqOf(DOMAIN results)
    IN  RelatedSorted([i \in DOMAIN keys |-> results[keys[i]]])

FindRelated(g, es, name_index, class_name, max_depth) ==
    LET candidates == Get(name_index, class_name, <<>>)
    IN  IF candidates = <<>> THEN <<>>
        ELSE IF \E i \in DOMAIN candidates : candidates[i] \notin DOMAIN g
             THEN <<>>      \* NodeNotFound is caught: return []
        ELSE LET results == RelatedDict(g, es, name_index, class_name, max_depth)
                 keys == SeqOf(DOMAIN results)
             IN  RelatedSorted([i \in DOMAIN keys |-> results[keys[i]]])

\* variant: the candidates are fetched with setdefault(class_name, [])
find_related_classes_setdefault(class_name, max_depth) ==
    /\ ret' = [op |-> "find_related_classes",
               value |-> FindRelated(nodes, edges, class_name_index, class_name, max_depth)]
    /\ class_name_index' = Put(class_name_index, class_name,
                               Get(class_name_index, class_name, <<>>))
    /\ UNCHANGED <<nodes, edges, class_key_index>>

find_related_classes(class_name, max_depth) ==
    /\ ret' = [op |-> "find_related_classes",
               value |-> FindRelated(nodes, edges, class_name_index, class_name, max_depth)]
    /\ UNCHANGED store

---------------------------------------------------------------------------
(* get_class_methods *)

\* variant: every outgoing edge contributes an entry
MethodWalk_all_out_edges(g, es, class_id) ==
    LET kept == out_edges(es, class_id)
    IN  [i \in DOMAIN kept |-> kept[i].v]

\* the method node ids the loop over out_edges appends an entry for
MethodWalk(g, es, class_id) ==
    LET kept == SelectSeq(out_edges(es, class_id),
                          LAMBDA e : /\ Get(e.data, "type", None) = "HAS_METHOD"
                                     /\ Get(g[e.v], "label", None) = "Method")
    IN  [i \in DOMAIN kept |-> kept[i].v]

\* key=lambda m: m.get("method_name") or ""
RECURSIVE MethodInsert(_, _)
MethodInsert(x, s) ==
    IF s = <<>> THEN <<x>>
    ELSE IF StrLeq(OrEmpty(Head(s).method_name), OrEmpty(x.method_name))
         THEN <<Head(s)>> \o MethodInsert(x, Tail(s))
    ELSE <<x>> \o s

RECURSIVE MethodSorted(_)
MethodSorted(s) ==
    IF s = <<>> THEN <<>>
    ELSE MethodInsert(s[Len(s)], MethodSorted(SubSeq(s, 1, Len(s) - 1)))

GetClassMethods(g, es, class_name, package) ==
    LET class_id == class_node_id(class_name, package)
    IN  IF class_id \notin DOMAIN g THEN <<>>
        ELSE LET walk == MethodWalk(g, es, class_id)
             IN  MethodSorted([i \in DOMAIN walk |->
                                  [method_name |-> Get(g[walk[i]], "name", None),
                                   documentation |-> Get(g[walk[i]], "documentation", None)]])

get_class_methods(class_name, package) ==
    /\ ret' = [op |-> "get_class_methods",
               value |-> GetClassMethods(nodes, edges, class_name, package)]
    /\ UNCHANGED store

---------------------------------------------------------------------------
(* execute_query: the compatibility layer for Cypher queries *)

\* the stats query of JavaDevelopmentAgent.get_status (java_agent.py); the
\* runs of blanks that indent its lines are shortened to two blanks
stats_query ==
    <<"\n", " ", " ", "M", "A", "T", "C", "H", " ", "(", "c", ":", "C",
      "l", "a", "s", "s", ")", " ", "\n", " ", " ", "O", "P", "T", "I",
      "O", "N", "A", "L", " ", "M", "A", "T", "C", "H", " ", "(", "c", ")",
      "-", "[", ":", "H", "A", "S", "_", "M", "E", "T", "H", "O", "D", "]",
      "-", ">", "(", "m", ":", "M", "e", "t", "h", "o", "d", ")", "\n",
      " ", " ", "R", "E", "T", "U", "R", "N", " ", "c", "o", "u", "n", "t",
      "(", "D", "I", "S", "T", "I", "N", "C", "T", " ", "c", ")", " ", "a",
      "s", " ", "c", "l", "a", "s", "s", "e", "s", ",", " ", "c", "o", "u",
      "n", "t", "(", "m", ")", " ", "a", "s", " ", "m", "e", "t", "h", "o",
      "d", "s", "\n", " ", " ">>

\* an index creation statement in mixed case, with irregular white space
index_query ==
    <<" ", "C", "r", "e", "a", "t", "e", "\n", " ", "I", "N", "D", "E",
      "X", " ", "x">>

\* an index creation statement that also holds the stats shape
index_stats_query ==
    <<"C", "R", "E", "A", "T", "E", " ", "I", "N", "D", "E", "X", " ", "x",
      " ", "M", "A", "T", "C", "H", " ", "(", "c", ":", "C", "l", "a", "s",
      "s", ")", " ", "R", "E", "T", "U", "R", "N", " ", "c", "o", "u", "n",
      "t", "(", "D", "I", "S", "T", "I", "N", "C", "T", " ", "c", ")", " ",
      "a", "s", " ", "c", "l", "a", "s", "s", "e", "s">>

\* a query of neither shape
other_query ==
    <<"M", "A", "T", "C", "H", " ", "(", "c", ":", "C", "l", "a", "s", "s",
      ")", " ", "R", "E", "T", "U", "R", "N", " ", "c">>

\* the query arguments; None stands for an argument that is not a str
Queries == { stats_query, index_query, index_stats_query, other_query, None }

\* c.isspace() for the characters that occur in queries
isspace(c) == c \in { " ", "\n", "\t" }

\* c.lower()
lower_char(c) == CASE c = "A" -> "a"
              [] c = "B" -> "b"
              [] c = "C" -> "c"
              [] c = "D" -> "d"
              [] c = "E" -> "e"
              [] c = "F" -> "f"
              [] c = "G" -> "g"
              [] c = "H" -> "h"
              [] c = "I" -> "i"
              [] c = "J" -> "j"
              [] c = "K" -> "k"
              [] c = "L" -> "l"
              [] c = "M" -> "m"
              [] c = "N" -> "n"
              [] c = "O" -> "o"
              [] c = "P" -> "p"
              [] c = "Q" -> "q"
              [] c = "R" -> "r"
              [] c = "S" -> "s"
              [] c = "T" -> "t"
              [] c = "U" -> "u"
              [] c = "V" -> "v"
              [] c = "W" -> "w"
              [] c = "X" -> "x"
              [] c = "Y" -> "y"
              [] c = "Z" -> "z"
              [] OTHER -> c

\* s.lower()
lower(s) == [i \in DOMAIN s |-> lower_char(s[i])]

\* s.split(): the maximal runs of non-space characters, from the indices
\* at which a run starts and ends
split(s) ==
    LET indices == [i \in 1..Len(s) |-> i]
        starts == SelectSeq(indices,
                            LAMBDA i : ~isspace(s[i]) /\ (i = 1 \/ isspace(s[i - 1])))
        ends == SelectSeq(indices,
                          LAMBDA i : ~isspace(s[i]) /\ (i = Len(s) \/ isspace(s[i + 1])))
    IN  [k \in DOMAIN starts |-> SubSeq(s, starts[k], ends[k])]

\* " ".join(words)
RECURSIVE join(_)
join(words) ==
    IF words = <<>> THEN <<>>
    ELSE IF Len(words) = 1 THEN words[1]
    ELSE words[1] \o <<" ">> \o join(Tail(words))

\* s.strip()
RECURSIVE lstrip(_)
lstrip(s) == IF s # <<>> /\ isspace(Head(s)) THEN lstrip(Tail(s)) ELSE s

RECURSIVE rstrip(_)
rstrip(s) ==
    IF s # <<>> /\ isspace(s[Len(s)]) THEN rstrip(SubSeq(s, 1, Len(s) - 1)) ELSE s

strip(s) == rstrip(lstrip(s))

\* s.startswith(prefix)
startswith(s, prefix) ==
    Len(prefix) <= Len(s) /\ SubSeq(s, 1, Len(prefix)) = prefix

\* sub in s
contains(sub, s) ==
    \E i \in 0..(Len(s) - Len(sub)) : SubSeq(s, i + 1, i + Len(sub)) = sub

\* " ".join(query.split()).strip().lower()
normalized(query) == lower(strip(join(split(query))))

\* q = " ".join(query.split()).strip().lower(), for each str among the
\* query arguments
q_of == [query \in Queries \ {None} |-> normalized(query)]

\* the literals the normalized query is matched against
create_index_prefix == <<"c", "r", "e", "a", "t", "e", " ", "i", "n", "d", "e", "x">>

match_class_part ==
    <<"m", "a", "t", "c", "h", " ", "(", "c", ":", "c", "l", "a", "s", "s", ")">>

return_count_part ==
    <<"r", "e", "t", "u", "r", "n", " ", "c", "o", "u", "n", "t", "(", "d",
      "i", "s", "t", "i", "n", "c", "t", " ", "c", ")", " ", "a", "s", " ",
      "c", "l", "a", "s", "s", "e", "s">>

\* sum(1 for _, data in self.graph.nodes(data=True) if data.get("label") == "Class")
count_classes(g) ==
    Cardinality({ n \in DOMAIN g : Get(g[n], "label", None) = "Class" })

\* the edge records a count ranges over, one per parallel edge
RECURSIVE count_records(_, _)
count_records(es, S) ==
    IF S = {} THEN 0
    ELSE LET e == CHOOSE x \in S : TRUE
         IN  CopiesIn(e, es) + count_records(es, S \ {e})

\* variant: every edge is counted, whatever its type
count_methods_any_type(es) == count_records(es, BagToSet(es))

\* sum(1 for u, v, k, data in self.graph.edges(keys=True, data=True)
\*     if data.get("type") == "HAS_METHOD")
count_methods(es) ==
    count_records(es, { e \in BagToSet(es) : Get(e.data, "type", None) = "HAS_METHOD" })

\* the record of the stats query
stats_record(g, es) == [classes |-> count_classes(g), methods |-> count_methods(es)]

\* variant: the stats shape is tested before the index creation prefix
ExecuteQuery_stats_first(g, es, query) ==
    IF query = None THEN <<>>
    ELSE LET q == q_of[query]
         IN  IF contains(match_class_part, q) /\ contains(return_count_part, q)
             THEN <<stats_record(g, es)>>
             ELSE <<>>

\* what execute_query returns
ExecuteQuery(g, es, query) ==
    IF query = None THEN <<>>                      \* not isinstance(query, str)
    ELSE LET q == q_of[query]
         IN  IF startswith(q, create_index_prefix) THEN <<>>
             ELSE IF contains(match_class_part, q) /\ contains(return_count_part, q)
                  THEN <<stats_record(g, es)>>
             ELSE <<>>

execute_query(query) ==
    /\ ret' = [op |-> "execute_query", value |-> ExecuteQuery(nodes, edges, query)]
    /\ UNCHANGED store

\* JavaDevelopmentAgent.get_status: stats[0] if stats else {'classes': 0, 'methods': 0}
database_stats(g, es) ==
    LET stats == ExecuteQuery(g, es, stats_query)
    IN  IF stats # <<>> THEN stats[1] ELSE [classes |-> 0, methods |-> 0]

---------------------------------------------------------------------------
(* The write operations, one write at a time.  The store takes no lock, so *)
(* a thread that calls while another call is in progress runs between two  *)
(* of its writes.  A test that precedes a write runs with that write when  *)
(* no other thread can change its outcome (the graph never loses a node).  *)

\* the records the threads write
ThreadClassInfos ==
    { [name |-> <<"A">>, package |-> <<>>, documentation |-> <<"x">>],
      [name |-> <<"A">>, package |-> <<"p">>, documentation |-> <<"x">>] }

ThreadMethodInfos ==
    { MethodInfo(<<"A">>, <<>>, <<"m">>, <<"x">>),
      MethodInfo(<<"A">>, <<"p">>, <<"m">>, <<"y">>) }

\* the calls to create_method_node that have not yet added their edge
PendingEdges == Cardinality({ t \in Threads : frames[t].op = "create_method_node" })

Frame(op, pc, args) == [op |-> op, pc |-> pc, args |-> args]

\* l.77-93: the call starts and self.graph.add_node(node_id, ...) runs
create_class_node_add_node(t, class_info) ==
    LET name == Get(class_info, "name", <<>>)
        package == Get(class_info, "package", <<>>)
    IN  /\ frames[t] = Idle
        /\ nodes' = add_node(nodes, class_node_id(name, package),
                             [label |-> "Class", name |-> name, package |-> package,
                              documentation |-> Get(class_info, "documentation", None)])
        /\ frames' = [frames EXCEPT ![t] = Frame("create_class_node", 97, class_info)]
        /\ UNCHANGED <<edges, class_key_index, class_name_index, ret>>

\* l.96-97: self._class_key_index[key] = node_id
create_class_node_key_index(t) ==
    LET class_info == frames[t].args
        name == Get(class_info, "name", <<>>)
        package == Get(class_info, "package", <<>>)
    IN  /\ frames[t].op = "create_class_node"
        /\ frames[t].pc = 97
        /\ class_key_index' = Put(class_key_index, class_key(name, package),
                                  class_node_id(name, package))
        /\ frames' = [frames EXCEPT ![t].pc = 98]
        /\ UNCHANGED <<nodes, edges, class_name_index, ret>>

\* l.98: self._class_name_index.setdefault(name, [])
create_class_node_setdefault(t) ==
    LET name == Get(frames[t].args, "name", <<>>)
    IN  /\ frames[t].op = "create_class_node"
        /\ frames[t].pc = 98
        /\ IF hashable(name)
           THEN /\ class_name_index' =
                       Put(class_name_index, name, Get(class_name_index, name, <<>>))
                /\ frames' = [frames EXCEPT ![t].pc = 99]
                /\ UNCHANGED ret
           ELSE /\ ret' = [op |-> "create_class_node", value |-> FALSE]
                /\ frames' = [frames EXCEPT ![t] = Idle]
                /\ UNCHANGED class_name_index
        /\ UNCHANGED <<nodes, edges, class_key_index>>

\* l.99: if node_id not in self._class_name_index[name]
create_class_node_test(t) ==
    LET class_info == frames[t].args
        name == Get(class_info, "name", <<>>)
        node_id == class_node_id(name, Get(class_info, "package", <<>>))
    IN  /\ frames[t].op = "create_class_node"
        /\ frames[t].pc = 99
        /\ IF node_id \notin Range(class_name_index[name])
           THEN /\ frames' = [frames EXCEPT ![t].pc = 100]
                /\ UNCHANGED ret
           ELSE /\ ret' = [op |-> "create_class_node", value |-> TRUE]
                /\ frames' = [frames EXCEPT ![t] = Idle]
        /\ UNCHANGED store

\* l.100-102: self._class_name_index[name].append(node_id); return True
create_class_node_append(t) ==
    LET class_info == frames[t].args
        name == Get(class_info, "name", <<>>)
        node_id == class_node_id(name, Get(class_info, "package", <<>>))
    IN  /\ frames[t].op = "create_class_node"
        /\ frames[t].pc = 100
        /\ class_name_index' =
               Put(class_name_index, name, Append(class_name_index[name], node_id))
        /\ ret' = [op |-> "create_class_node", value |-> TRUE]
        /\ frames' = [frames EXCEPT ![t] = Idle]
        /\ UNCHANGED <<nodes, edges, class_key_index>>

\* l.114-135: the call starts; with the owner absent it returns False,
\* otherwise self.graph.add_node(method_node_id, ...) runs
create_method_node_add_node(t, method_info) ==
    LET class_name == Get(method_info, "class_name", <<>>)
        method_name == Get(method_info, "method_name", <<>>)
        class_id == class_node_id(class_name, Get(method_info, "package", <<>>))
    IN  /\ frames[t] = Idle
        /\ IF owner_missing(nodes, class_id)
           THEN /\ ret' = [op |-> "create_method_node", value |-> FALSE]
                /\ UNCHANGED <<nodes, frames>>
           ELSE /\ nodes' = add_node(nodes, method_node_id(class_name, method_name),
                                     [label |-> "Method", name |-> method_name,
                                      class_name |-> class_name,
                                      documentation |-> Get(method_info, "documentation", None)])
                /\ frames' = [frames EXCEPT ![t] = Frame("create_method_node", 138, method_info)]
                /\ UNCHANGED ret
        /\ UNCHANGED <<edges, class_key_index, class_name_index>>

\* l.138-139: self.graph.add_edge(class_node_id, method_node_id,
\* type="HAS_METHOD"); return True
create_method_node_add_edge(t) ==
    LET method_info == frames[t].args
        class_name == Get(method_info, "class_name", <<>>)
        class_id == class_node_id(class_name, Get(method_info, "package", <<>>))
        method_id == method_node_id(class_name, Get(method_info, "method_name", <<>>))
    IN  /\ frames[t].op = "create_method_node"
        /\ frames[t].pc = 138
        /\ nodes' = add_edge_nodes(nodes, class_id, method_id)
        /\ edges' = add_edge(edges, class_id, method_id, [type |-> "HAS_METHOD"])
        /\ ret' = [op |-> "create_method_node", value |-> TRUE]
        /\ frames' = [frames EXCEPT ![t] = Idle]
        /\ UNCHANGED <<class_key_index, class_name_index>>

---------------------------------------------------------------------------
(* JavaCodeParser.find_dependencies and                                    *)
(* JavaDevelopmentAgent._store_project_data (java_agent.py): the batch     *)
(* ingestion of the parse results of a project.  The call runs in a frame; *)
(* each step is one call into the store, which is the store's own action.  *)

void == <<"v", "o", "i", "d">>

primitive_types ==
    { <<"b", "o", "o", "l", "e", "a", "n">>,
      <<"b", "y", "t", "e">>,
      <<"c", "h", "a", "r">>,
      <<"s", "h", "o", "r", "t">>,
      <<"i", "n", "t">>,
      <<"l", "o", "n", "g">>,
      <<"f", "l", "o", "a", "t">>,
      <<"d", "o", "u", "b", "l", "e">>,
      <<"v", "o", "i", "d">>,
      <<"S", "t", "r", "i", "n", "g">> }

\* _is_primitive_type
is_primitive_type(type_name) == type_name \in primitive_types

\* a method record of _extract_method_info without parameters
ParsedMethod(name, return_type) ==
    [name |-> name, return_type |-> return_type, parameters |-> <<>>,
     documentation |-> <<"x">>]

\* a record of _extract_class_info (extends is a name or None) or of
\* _extract_interface_info
Parsed(name, package, extends, implements, methods) ==
    [name |-> name, package |-> package, documentation |-> <<"x">>,
     extends |-> extends, implements |-> implements, methods |-> methods]

\* parse results: the classes and the interfaces of a project, in file order
ParseResult(classes, interfaces) == [classes |-> classes, interfaces |-> interfaces]

ParseResults ==
    { \* A extends p.A and is parsed before it
      ParseResult(<<Parsed(<<"A">>, <<>>, <<"p", ".", "A">>, <<>>,
                           <<ParsedMethod(<<"m">>, void)>>),
                    Parsed(<<"p", ".", "A">>, <<>>, None, <<>>, <<>>)>>, <<>>),
      \* the same two classes, the base class first
      ParseResult(<<Parsed(<<"p", ".", "A">>, <<>>, None, <<>>, <<>>),
                    Parsed(<<"A">>, <<>>, <<"p", ".", "A">>, <<>>,
                           <<ParsedMethod(<<"m">>, void)>>)>>, <<>>),
      \* A implements the interface p.A, which declares m
      ParseResult(<<Parsed(<<"A">>, <<>>, None, <<<<"p", ".", "A">>>>, <<>>)>>,
                  <<Parsed(<<"p", ".", "A">>, <<>>, <<>>, <<>>,
                           <<ParsedMethod(<<"m">>, void)>>)>>),
      \* A of package p declares n, which returns an A
      ParseResult(<<Parsed(<<"A">>, <<"p">>, None, <<>>,
                           <<ParsedMethod(<<"n">>, <<"A">>)>>)>>, <<>>),
      \* A alone
      ParseResult(<<Parsed(<<"A">>, <<>>, None, <<>>, <<>>)>>, <<>>) }

\* one entry of the list find_dependencies returns; package_to is always ''
Dependency(class_info, to, type) ==
    [from |-> class_info.name, to |-> to, type |-> type,
     package_from |-> class_info.package, package_to |-> <<>>]

\* the dependencies of the methods: the return type, then the parameter types
RECURSIVE method_dependencies(_, _)
method_dependencies(class_info, methods) ==
    IF methods = <<>> THEN <<>>
    ELSE LET method == Head(methods)
             usage == <<"u", "s", "a", "g", "e">>
             returned ==
                 IF /\ truthy(method.return_type)
                    /\ method.return_type # void
                    /\ ~is_primitive_type(method.return_type)
                 THEN <<Dependency(class_info, method.return_type, usage)>>
                 ELSE <<>>
             params == SelectSeq(method.parameters,
                                 LAMBDA param : ~is_primitive_type(param.type))
         IN  returned
                 \o [i \in DOMAIN params |-> Dependency(class_info, params[i].type, usage)]
                 \o method_dependencies(class_info, Tail(methods))

find_dependencies(class_info) ==
    LET extends == Get(class_info, "extends", None)
        implements == Get(class_info, "implements", <<>>)
    IN  (IF truthy(extends)
         THEN <<Dependency(class_info, extends, <<"i", "n", "h", "e", "r", "i", "t", "a", "n", "c", "e">>)>>
         ELSE <<>>)
            \o [i \in DOMAIN implements |->
                   Dependency(class_info, implements[i], <<"i", "m", "p", "l", "e", "m", "e", "n", "t", "a", "t", "i", "o", "n">>)]
            \o method_dependencies(class_info, Get(class_info, "methods", <<>>))

\* the locals of _store_project_data: i, j and k are the positions of the
\* loops over the classes, over the methods or dependencies of class i, and
\* over the interfaces
Locals(parse_results, i, j, k, storage_stats) ==
    [parse_results |-> parse_results, i |-> i, j |-> j, k |-> k,
     storage_stats |-> storage_stats]

\* storage_stats[key] += 1 if the call into the store returned True
Counted(storage_stats, key, returned) ==
    IF returned THEN [storage_stats EXCEPT ![key] = @ + 1] ELSE storage_stats

\* the edges a batch can add: one per method and one per dependency
RECURSIVE EdgeDemand(_)
EdgeDemand(classes) ==
    IF classes = <<>> THEN 0
    ELSE Len(Head(classes).methods) + Len(find_dependencies(Head(classes)))
             + EdgeDemand(Tail(classes))

\* l.93-99: the call starts
store_project_data_begin(t, parse_results) ==
    /\ frames[t] = Idle
    /\ frames' = [frames EXCEPT ![t] =
                     Frame("_store_project_data", 101,
                           Locals(parse_results, 1, 1, 1,
                                  [classes_stored |-> 0, methods_stored |-> 0,
                                   dependencies_created |-> 0]))]
    /\ UNCHANGED <<store, ret>>

\* l.101-103: for class_info in parse_results['classes']:
\*                if db.create_class_node(class_info): classes_stored += 1
store_project_data_class(t) ==
    LET l == frames[t].args
        classes == l.parse_results.classes
    IN  /\ frames[t].op = "_store_project_data"
        /\ frames[t].pc = 101
        /\ IF l.i > Len(classes)
           THEN /\ frames' = [frames EXCEPT ![t].pc = 131]
                /\ UNCHANGED <<store, ret>>
           ELSE /\ create_class_node(classes[l.i])
                /\ frames' = [frames EXCEPT
                                 ![t].pc = IF ret'.value THEN 106 ELSE 122,
                                 ![t].args = Locals(l.parse_results, l.i, 1, l.k,
                                                    Counted(l.storage_stats, "classes_stored",
                                                            ret'.value))]

\* l.106-119: for method in class_info['methods']:
\*                if db.create_method_node(method_data): methods_stored += 1
store_project_data_method(t) ==
    LET l == frames[t].args
        class_info == l.parse_results.classes[l.i]
        method == class_info.methods[l.j]
        method_data == MethodInfo(class_info.name, class_info.package, method.name,
                                  method.documentation)
    IN  /\ frames[t].op = "_store_project_data"
        /\ frames[t].pc = 106
        /\ IF l.j > Len(class_info.methods)
           THEN /\ frames' = [frames EXCEPT
                                 ![t].pc = 122,
                                 ![t].args = Locals(l.parse_results, l.i, 1, l.k,
                                                    l.storage_stats)]
                /\ UNCHANGED <<store, ret>>
           ELSE /\ create_method_node(method_data)
                /\ frames' = [frames EXCEPT
                                 ![t].args = Locals(l.parse_results, l.i, l.j + 1, l.k,
                                                    Counted(l.storage_stats, "methods_stored",
                                                            ret'.value))]

\* l.122-128: for dep in java_parser.find_dependencies(class_info):
\*                if db.create_dependency_relationship(...): dependencies_created += 1
store_project_data_dependency(t) ==
    LET l == frames[t].args
        dependencies == find_dependencies(l.parse_results.classes[l.i])
        dep == dependencies[l.j]
    IN  /\ frames[t].op = "_store_project_data"
        /\ frames[t].pc = 122
        /\ IF l.j > Len(dependencies)
           THEN /\ frames' = [frames EXCEPT
                                 ![t].pc = 101,
                                 ![t].args = Locals(l.parse_results, l.i + 1, 1, l.k,
                                                    l.storage_stats)]
                /\ UNCHANGED <<store, ret>>
           ELSE /\ create_dependency_relationship(
                       [from_class |-> dep.from, to_class |-> dep.to,
                        dependency_type |-> dep.type,
                        package_from |-> dep.package_from, package_to |-> dep.package_to])
                /\ frames' = [frames EXCEPT
                                 ![t].args = Locals(l.parse_results, l.i, l.j + 1, l.k,
                                                    Counted(l.storage_stats,
                                                            "dependencies_created", ret'.value))]

\* l.131-133: for interface_info in parse_results['interfaces']:
\*                if db.create_class_node(interface_info): classes_stored += 1
store_project_data_interface(t) ==
    LET l == frames[t].args
        interfaces == l.parse_results.interfaces
    IN  /\ frames[t].op = "_store_project_data"
        /\ frames[t].pc = 131
        /\ l.k <= Len(interfaces)
        /\ create_class_node(interfaces[l.k])
        /\ frames' = [frames EXCEPT
                         ![t].args = Locals(l.parse_results, l.i, l.j, l.k + 1,
                                            Counted(l.storage_stats, "classes_stored",
                                                    ret'.value))]

\* l.135-136: return storage_stats
store_project_data_return(t) ==
    LET l == frames[t].args
    IN  /\ frames[t].op = "_store_project_data"
        /\ frames[t].pc = 131
        /\ l.k > Len(l.parse_results.interfaces)
        /\ ret' = [op |-> "_store_project_data", value |-> l.storage_stats]
        /\ frames' = [frames EXCEPT ![t] = Idle]
        /\ UNCHANGED store

---------------------------------------------------------------------------
(* Specification *)

Next ==
    \/ \E class_info \in ClassInfos : create_class_node(class_info) /\ UNCHANGED frames
    \/ \E method_info \in MethodInfos :
           /\ class_node_id(method_info.class_name, method_info.package) \in DOMAIN nodes
                  => EdgeRoom
           /\ create_method_node(method_info)
           /\ UNCHANGED frames
    \/ \E a \in DependencyArgs :
           /\ ( /\ class_node_id(a.from_class, a.package_from) \in DOMAIN nodes
                /\ class_node_id(a.to_class, a.package_to) \in DOMAIN nodes ) => EdgeRoom
           /\ create_dependency_relationship(a)
           /\ UNCHANGED frames
    \/ \E class_name \in Names, max_depth \in 0..MaxDepth :
           find_related_classes(class_name, max_depth) /\ UNCHANGED frames
    \/ \E class_name \in Names, package \in Packages :
           get_class_methods(class_name, package) /\ UNCHANGED frames

Spec == Init /\ [][Next]_vars

\* every operation of the store: the writes, the reads and the queries
NextAll ==
    \/ Next
    \/ \E query \in Queries : execute_query(query) /\ UNCHANGED frames

SpecAll == Init /\ [][NextAll]_vars

\* the store under writes, read through the compatibility layer
NextQuery ==
    \/ \E class_info \in ClassInfos : create_class_node(class_info) /\ UNCHANGED frames
    \/ \E method_info \in MethodInfos :
           /\ class_node_id(method_info.class_name, method_info.package) \in DOMAIN nodes
                  => EdgeRoom
           /\ create_method_node(method_info)
           /\ UNCHANGED frames
    \/ \E a \in DependencyArgs :
           /\ ( /\ class_node_id(a.from_class, a.package_from) \in DOMAIN nodes
                /\ class_node_id(a.to_class, a.package_to) \in DOMAIN nodes ) => EdgeRoom
           /\ create_dependency_relationship(a)
           /\ UNCHANGED frames
    \/ \E query \in Queries : execute_query(query) /\ UNCHANGED frames

SpecQuery == Init /\ [][NextQuery]_vars

\* type records of any shape arrive at create_class_node
NextRecords ==
    \/ \E class_info \in ClassInfos \cup MalformedClassInfos : create_class_node(class_info) /\ UNCHANGED frames
    \/ \E query \in Queries : execute_query(query) /\ UNCHANGED frames

SpecRecords == Init /\ [][NextRecords]_vars

\* threads that write without a lock, and calls that read in between
NextThreads ==
    \/ \E t \in Threads, class_info \in ThreadClassInfos :
           create_class_node_add_node(t, class_info)
    \/ \E t \in Threads : create_class_node_key_index(t)
    \/ \E t \in Threads : create_class_node_setdefault(t)
    \/ \E t \in Threads : create_class_node_test(t)
    \/ \E t \in Threads : create_class_node_append(t)
    \/ \E t \in Threads, method_info \in ThreadMethodInfos :
           /\ BagCardinality(edges) + PendingEdges < MaxEdges
           /\ create_method_node_add_node(t, method_info)
    \/ \E t \in Threads : create_method_node_add_edge(t)
    \/ \E class_name \in Names, package \in Packages :
           get_class_methods(class_name, package) /\ UNCHANGED frames
    \/ \E class_name \in Names :
           find_related_classes(class_name, MaxDepth) /\ UNCHANGED frames

SpecThreads == Init /\ [][NextThreads]_vars

\* the agent ingests projects one after the other and reports its status
\* in between
NextBatch ==
    \/ \E parse_results \in ParseResults :
           /\ BagCardinality(edges) + EdgeDemand(parse_results.classes) <= MaxEdges
           /\ store_project_data_begin(1, parse_results)
    \/ store_project_data_class(1)
    \/ store_project_data_method(1)
    \/ store_project_data_dependency(1)
    \/ store_project_data_interface(1)
    \/ store_project_data_return(1)
    \/ /\ frames[1] = Idle
       /\ execute_query(stats_query)
       /\ UNCHANGED frames

SpecBatch == Init /\ [][NextBatch]_vars

---------------------------------------------------------------------------
(* Observations used by the properties *)

ClassAIdent == class_node_id(<<"A">>, <<>>)
ClassPAIdent == class_node_id(<<"A">>, <<"p">>)
ClassPPAIdent == class_node_id(<<"p", ".", "A">>, <<"p">>)

\* exact-match lookup: the attribute dict of the node that the exact-match
\* index holds for (name, package), None when there is no entry
ExactLookup(g, key_index, name, package) ==
    IF class_key(name, package) \in DOMAIN key_index
          /\ key_index[class_key(name, package)] \in DOMAIN g
    THEN g[key_index[class_key(name, package)]]
    ELSE None

\* the Type Node attributes a class_info record asks for
ClassAttrs(class_info) ==
    [label |-> "Class", name |-> class_info.name, package |-> class_info.package,
     documentation |-> class_info.documentation]

NoDuplicates(s) == \A i, j \in DOMAIN s : s[i] = s[j] => i = j

Occurrences(s, x) == Cardinality({ i \in DOMAIN s : s[i] = x })

HasMethodEdge(class_id, method_id) ==
    [u |-> class_id, v |-> method_id, data |-> [type |-> "HAS_METHOD"]]

DependsOnEdges == { e \in BagToSet(edges) : Get(e.data, "type", None) = "DEPENDS_ON" }

Depths == 0..MaxDepth

---------------------------------------------------------------------------
(* Properties *)

\* C1: after create_class_node(class_info) the exact-match lookup with the
\* record's (name, package) yields a node carrying exactly the record's
\* attributes, whatever the store held before (last write wins).
C1_ReadAfterWrite ==
    [][\A class_info \in ClassInfos :
           create_class_node(class_info)
               => ExactLookup(nodes', class_key_index', class_info.name, class_info.package)
                      = ClassAttrs(class_info)]_vars

\* a node that was upserted under two different names (hence at least
\* twice) and whose attributes are those of the last of these calls
C1_Witness ==
    /\ ret.op = "create_class_node"
    /\ ClassPAIdent \in DOMAIN nodes
    /\ <<"A">> \in DOMAIN class_name_index
    /\ <<"p", ".", "A">> \in DOMAIN class_name_index
    /\ ClassPAIdent \in Range(class_name_index[<<"A">>])
    /\ ClassPAIdent \in Range(class_name_index[<<"p", ".", "A">>])
    /\ ExactLookup(nodes, class_key_index, <<"A">>, <<"p">>)
           = ClassAttrs([name |-> <<"A">>, package |-> <<"p">>, documentation |-> <<"x">>])

\* C2: no index holds a duplicate: a node id occurs at most once in every
\* name-index entry, and the exact-match index has at most one entry for
\* the key of every (name, package).
C2_NoDuplicateIndexEntries ==
    /\ \A name \in DOMAIN class_name_index : NoDuplicates(class_name_index[name])
    /\ \A name \in Names, package \in Packages :
           Cardinality({ k \in DOMAIN class_key_index : k = class_key(name, package) }) <= 1

\* the identity class::p.A is registered under two names, so it was
\* upserted at least twice, and the entry of the name A holds two node ids
C2_Witness ==
    /\ ret.op = "create_class_node"
    /\ <<"A">> \in DOMAIN class_name_index
    /\ <<"p", ".", "A">> \in DOMAIN class_name_index
    /\ ClassPAIdent \in Range(class_name_index[<<"A">>])
    /\ ClassPAIdent \in Range(class_name_index[<<"p", ".", "A">>])
    /\ Len(class_name_index[<<"A">>]) = 2

\* C3: create_method_node whose owner node is absent returns False and
\* leaves nodes, edges and both indices as they were.
C3_MissingOwnerWritesNothing ==
    [][\A method_info \in MethodInfos :
           ( /\ create_method_node(method_info)
             /\ class_node_id(method_info.class_name, method_info.package) \notin DOMAIN nodes )
               => ( /\ ret'.op = "create_method_node"
                    /\ ret'.value = FALSE
                    /\ UNCHANGED store )]_vars

C3_Witness ==
    /\ ret.op = "create_method_node"
    /\ ret.value = FALSE
    /\ nodes # <<>>

\* C4: a member created for an existing owner is the target of exactly one
\* has-member edge from that owner and is listed exactly once among the
\* owner's members, however often the call was issued.
C4_MemberListedOnce ==
    \A method_info \in MethodInfos :
        LET class_id == class_node_id(method_info.class_name, method_info.package)
            method_id == method_node_id(method_info.class_name, method_info.method_name)
        IN  BagIn(HasMethodEdge(class_id, method_id), edges)
                => /\ CopiesIn(HasMethodEdge(class_id, method_id), edges) = 1
                   /\ Occurrences(MethodWalk(nodes, edges, class_id), method_id) = 1

\* C5: create_dependency_relationship with an absent endpoint returns False
\* and adds no node (no placeholder either), no edge and no index entry.
C5_MissingEndpointAddsNothing ==
    [][\A a \in DependencyArgs :
           ( /\ create_dependency_relationship(a)
             /\ \/ class_node_id(a.from_class, a.package_from) \notin DOMAIN nodes
                \/ class_node_id(a.to_class, a.package_to) \notin DOMAIN nodes )
               => ( /\ ret'.op = "create_dependency_relationship"
                    /\ ret'.value = FALSE
                    /\ UNCHANGED store )]_vars

\* refused although one of the two endpoints exists
C5_Witness ==
    /\ ret.op = "create_dependency_relationship"
    /\ ret.value = FALSE
    /\ nodes # <<>>
    /\ Cardinality(DOMAIN nodes) = 1

\* C6: for every DEPENDS_ON edge between two distinct nodes F and T, every
\* name F is registered under (its stored name is one of them) and every
\* max_depth >= 1, find_related_classes returns T with distance 1; as an
\* invariant this holds after every later operation.
C6_RelationshipVisible ==
    \A e \in DependsOnEdges :
        e.u # e.v =>
            /\ nodes[e.u].name \in DOMAIN class_name_index
            /\ e.u \in Range(class_name_index[nodes[e.u].name])
            /\ \A name \in DOMAIN class_name_index, max_depth \in 1..MaxDepth :
                   e.u \in Range(class_name_index[name]) =>
                       /\ e.v \in DOMAIN RelatedDict(nodes, edges, class_name_index,
                                                     name, max_depth)
                       /\ [name |-> nodes[e.v].name, package |-> nodes[e.v].package,
                           distance |-> 1]
                              \in Range(FindRelated(nodes, edges, class_name_index,
                                                    name, max_depth))

\* A (package p) depends on p.A (package p); a later call has run
C6_Witness ==
    /\ \E e \in DependsOnEdges : e.u = ClassPAIdent /\ e.v = ClassPPAIdent
    /\ ret.op = "find_related_classes"
    /\ Len(ret.value) = 2

\* C7: find_related_classes(name, 0) is empty for every name.
C7_ZeroDepthEmpty ==
    \A name \in Names : FindRelated(nodes, edges, class_name_index, name, 0) = <<>>

\* two nodes named A that are adjacent: a search of depth 1 returns both,
\* the search of depth 0 returned nothing
C7_Witness ==
    /\ ret = [op |-> "find_related_classes", value |-> <<>>]
    /\ <<"A">> \in DOMAIN class_name_index
    /\ Len(class_name_index[<<"A">>]) = 2
    /\ \E e \in DependsOnEdges : {e.u, e.v} = {ClassAIdent, ClassPAIdent}
    /\ Len(FindRelated(nodes, edges, class_name_index, <<"A">>, 1)) = 2

\* C8: the returned sequence is ordered by distance and, among equal
\* distances, by name (None and "" first).
C8_Sorted ==
    \A name \in Names, max_depth \in Depths :
        LET r == FindRelated(nodes, edges, class_name_index, name, max_depth)
        IN  \A i \in 1..(Len(r) - 1) :
                \/ r[i].distance < r[i + 1].distance
                \/ /\ r[i].distance = r[i + 1].distance
                   /\ StrLeq(OrEmpty(r[i].name), OrEmpty(r[i + 1].name))

\* a returned sequence of two records with different names
C8_Witness ==
    /\ ret.op = "find_related_classes"
    /\ Len(ret.value) = 2
    /\ ret.value[1].name # ret.value[2].name

\* C9: with d1 <= d2, every node returned for d1 is returned for d2 with
\* the same record, and every node returned only for d2 is farther than d1.
C9_DepthMonotone ==
    \A name \in Names :
        \* the results dict and the returned records for every depth
        \A table \in { { [depth |-> d,
                          dict |-> RelatedDict(nodes, edges, class_name_index, name, d),
                          recs |-> Range(FindRelated(nodes, edges, class_name_index, name, d))]
                        : d \in Depths } } :
            \A r1 \in table, r2 \in table :
                r1.depth <= r2.depth =>
                    /\ DOMAIN r1.dict \subseteq DOMAIN r2.dict
                    /\ \A n \in DOMAIN r1.dict : r2.dict[n] = r1.dict[n]
                    /\ \A n \in DOMAIN r2.dict \ DOMAIN r1.dict :
                           r2.dict[n].distance > r1.depth
                    /\ r1.recs \subseteq r2.recs
                    /\ \A rec \in r2.recs \ r1.recs : rec.distance > r1.depth

\* a node at distance 2: found with depth 2, not with depth 1
C9_Witness ==
    /\ ret.op = "find_related_classes"
    /\ \E i \in DOMAIN ret.value : ret.value[i].distance = 2
    /\ \E name \in Names :
           /\ FindRelated(nodes, edges, class_name_index, name, 1) # <<>>
           /\ FindRelated(nodes, edges, class_name_index, name, 2)
                  # FindRelated(nodes, edges, class_name_index, name, 1)

\* C10: find_related_classes for a name without name-index entry returns
\* the empty list and leaves the graph and both indices unchanged.
C10_UnknownNameEmpty ==
    [][\A name \in Names, max_depth \in Depths :
           ( /\ name \notin DOMAIN class_name_index
             /\ find_related_classes(name, max_depth) )
               => ( /\ ret'.op = "find_related_classes"
                    /\ ret'.value = <<>>
                    /\ UNCHANGED store )]_vars

\* a non-empty store in which one of the names was never registered
C10_Witness ==
    /\ ret = [op |-> "find_related_classes", value |-> <<>>]
    /\ nodes # <<>>
    /\ \E name \in Names : name \notin DOMAIN class_name_index

\* C11: get_class_methods returns its entries strictly ascending by member
\* name: consecutive entries m, n have m.method_name < n.method_name, so no
\* two entries carry the same name.
C11_StrictlyAscending ==
    \A class_name \in Names, package \in Packages :
        LET r == GetClassMethods(nodes, edges, class_name, package)
        IN  \A i \in 1..(Len(r) - 1) :
                StrLt(OrEmpty(r[i].method_name), OrEmpty(r[i + 1].method_name))

HasMethodOutEdges(class_id) ==
    { e \in BagToSet(edges) : e.u = class_id /\ Get(e.data, "type", None) = "HAS_METHOD" }

\* C12: get_class_methods leaves the graph and both indices unchanged and
\* returns the empty list when the owner node is absent and when the owner
\* has no outgoing HAS_METHOD edge, whatever DEPENDS_ON edges leave it.
C12_NoMembersEmpty ==
    [][\A class_name \in Names, package \in Packages :
           ( /\ get_class_methods(class_name, package)
             /\ \/ class_node_id(class_name, package) \notin DOMAIN nodes
                \/ HasMethodOutEdges(class_node_id(class_name, package)) = {} )
               => ( /\ ret'.op = "get_class_methods"
                    /\ ret'.value = <<>>
                    /\ UNCHANGED store )]_vars

\* the store holds the single type A, which depends on itself and has no
\* member: each call was for this owner or for an absent one
C12_Witness ==
    /\ ret = [op |-> "get_class_methods", value |-> <<>>]
    /\ DOMAIN nodes = {ClassAIdent}
    /\ \E e \in DependsOnEdges : e.u = ClassAIdent
    /\ HasMethodOutEdges(ClassAIdent) = {}

TypeNodes == { n \in DOMAIN nodes : Get(nodes[n], "label", None) = "Class" }

MemberNodes == { n \in DOMAIN nodes : Get(nodes[n], "label", None) = "Method" }

\* the HAS_METHOD edge records, with their multiplicities
HasMethodBag ==
    [e \in { x \in BagToSet(edges) : Get(x.data, "type", None) = "HAS_METHOD" } |-> edges[e]]

\* the number of HAS_METHOD edge records that end in the member node m
OwningEdges(m) ==
    BagCardinality([e \in { x \in DOMAIN HasMethodBag : x.v = m } |-> edges[e]])

\* C13: the stats query returns exactly one record; its classes field is
\* the number of Type Nodes (the identities the exact-match index holds)
\* and its methods field the number of HAS_METHOD edge records; when every
\* member was upserted once (one owning edge record each), methods is the
\* number of members.  get_status passes this record on.
C13_StatsRecord ==
    LET stats == ExecuteQuery(nodes, edges, stats_query)
    IN  /\ Len(stats) = 1
        /\ DOMAIN stats[1] = {"classes", "methods"}
        /\ stats[1].classes = Cardinality(TypeNodes)
        /\ stats[1].classes = Cardinality(Range(class_key_index))
        /\ stats[1].methods = BagCardinality(HasMethodBag)
        /\ (\A m \in MemberNodes : OwningEdges(m) = 1)
               => stats[1].methods = Cardinality(MemberNodes)
        /\ database_stats(nodes, edges) = stats[1]

\* two types and two members, each upserted once: the stats query has
\* returned [{classes: 2, methods: 2}]
C13_Witness ==
    /\ ret = [op |-> "execute_query", value |-> <<[classes |-> 2, methods |-> 2]>>]
    /\ Cardinality(TypeNodes) = 2
    /\ Cardinality(MemberNodes) = 2
    /\ \A m \in MemberNodes : OwningEdges(m) = 1

\* C14: execute_query leaves the graph and both indices unchanged; it
\* returns the empty list for an index creation statement (mixed case,
\* irregular white space), also when the statement holds the stats shape,
\* for a query of neither shape and for an argument that is not a str.
C14_ShimFrame ==
    [][\A query \in Queries :
           execute_query(query)
               => ( /\ ret'.op = "execute_query"
                    /\ UNCHANGED store
                    /\ query \in {index_query, index_stats_query, other_query, None}
                           => ret'.value = <<>> )]_vars

\* a call has returned the empty list on a store for which the stats
\* query returns a record
C14_Witness ==
    /\ ret = [op |-> "execute_query", value |-> <<>>]
    /\ TypeNodes # {}
    /\ HasMethodBag # EmptyBag
    /\ ExecuteQuery(nodes, edges, index_stats_query) = <<>>
    /\ ExecuteQuery(nodes, edges, stats_query) # <<>>

\* C15: create_class_node on a malformed record (no name, or a name that
\* is not a str) returns False and leaves the graph and both indices as
\* they were.
C15_MalformedRejected ==
    [][\A class_info \in MalformedClassInfos :
           create_class_node(class_info)
               => ( /\ ret'.op = "create_class_node"
                    /\ ret'.value = FALSE
                    /\ UNCHANGED store )]_vars

\* C16: while create_class_node calls are in progress, every Type Node of
\* the graph has its exact-match entry and is listed in the name-index
\* entry of its name.
C16_TypeNodeIndexed ==
    \A n \in TypeNodes :
        /\ class_key(nodes[n].name, nodes[n].package) \in DOMAIN class_key_index
        /\ class_key_index[class_key(nodes[n].name, nodes[n].package)] = n
        /\ nodes[n].name \in DOMAIN class_name_index
        /\ n \in Range(class_name_index[nodes[n].name])

\* C17: while create_method_node calls are in progress, every Member Node
\* of the graph is the target of a HAS_METHOD edge that leaves a Type Node.
C17_MemberNodeOwned ==
    \A m \in MemberNodes :
        \E e \in DOMAIN HasMethodBag : e.v = m /\ e.u \in TypeNodes

\* the member records and the dependency records of the classes of a batch
RECURSIVE MemberRecords(_)
MemberRecords(classes) ==
    IF classes = <<>> THEN 0
    ELSE Len(Head(classes).methods) + MemberRecords(Tail(classes))

RECURSIVE DependencyRecords(_)
DependencyRecords(classes) ==
    IF classes = <<>> THEN 0
    ELSE Len(find_dependencies(Head(classes))) + DependencyRecords(Tail(classes))

\* what a result reports besides the stored types, members and dependencies
RECURSIVE OtherCounters(_, _)
OtherCounters(storage_stats, keys) ==
    IF keys = {} THEN 0
    ELSE LET key == CHOOSE x \in keys : TRUE
         IN  storage_stats[key] + OtherCounters(storage_stats, keys \ {key})

ReportedSkipped(storage_stats) ==
    OtherCounters(storage_stats,
                  DOMAIN storage_stats
                      \ {"classes_stored", "methods_stored", "dependencies_created"})

\* C18: _store_project_data attempts every member and dependency record of
\* the batch, whatever fails on the way, and its result accounts for the
\* records that were not stored: the records attempted are the records
\* stored plus the records the result reports as skipped.
C18_SkippedAccounted ==
    [][\A t \in Threads :
           store_project_data_return(t)
               => LET classes == frames[t].args.parse_results.classes
                      storage_stats == ret'.value
                  IN  MemberRecords(classes) + DependencyRecords(classes)
                          = storage_stats.methods_stored
                                + storage_stats.dependencies_created
                                + ReportedSkipped(storage_stats)]_vars

\* reference search: the nodes at most k hops from the nodes of S, an edge
\* of any type being one hop in either direction
RECURSIVE Within(_, _)
Within(S, k) ==
    IF k = 0 THEN S
    ELSE Within(S \cup { e.v : e \in { x \in BagToSet(edges) : x.u \in S } }
                  \cup { e.u : e \in { x \in BagToSet(edges) : x.v \in S } },
                k - 1)

\* the hop counts 1..max_depth at which the node n is reached from a seed
\* other than n itself
Hops(seeds, n, max_depth) ==
    { k \in 1..max_depth : \E s \in seeds \ {n} : n \in Within({s}, k) }

Min(S) == CHOOSE k \in S : \A j \in S : k <= j

C20_NoSeedReturned ==
    \A name \in Names, max_depth \in Depths :
        DOMAIN RelatedDict(nodes, edges, class_name_index, name, max_depth)
            \cap Range(Get(class_name_index, name, <<>>)) = {}

\* the entries of get_class_methods(class_name, package) for the member name
EntriesNamed(g, es, class_name, package, method_name) ==
    { r \in Range(GetClassMethods(g, es, class_name, package)) : r.method_name = method_name }

\* C21: the member identity leaves out the owner's package.  When member
\* m of a type X was created for the owner in one package (one HAS_METHOD
\* edge) and create_method_node is then called for m of X with the
\* existing owner in another package (neither owner having another member
\* node of that name), there is still one Member Node; it
\* carries the attributes of the second call and has one HAS_METHOD edge
\* from each owner, and get_class_methods returns the second call's
\* attributes for m for both owners.
C21_MemberAliased ==
    [][\A first \in MethodInfos, second \in MethodInfos :
           ( /\ create_method_node(second)
             /\ first.class_name = second.class_name
             /\ first.method_name = second.method_name
             /\ first.package # second.package
             /\ class_node_id(first.class_name, first.package) \in DOMAIN nodes
             /\ class_node_id(second.class_name, second.package) \in DOMAIN nodes
             /\ CopiesIn(HasMethodEdge(class_node_id(first.class_name, first.package),
                                       method_node_id(first.class_name, first.method_name)),
                         edges) = 1
             /\ ~BagIn(HasMethodEdge(class_node_id(second.class_name, second.package),
                                     method_node_id(second.class_name, second.method_name)),
                       edges)
             /\ \A e \in DOMAIN HasMethodBag :
                    ( /\ e.u \in { class_node_id(first.class_name, first.package),
                                   class_node_id(second.class_name, second.package) }
                      /\ nodes[e.v].name = second.method_name )
                        => e.v = method_node_id(second.class_name, second.method_name) )
               => LET m == method_node_id(second.class_name, second.method_name)
                      entry == [method_name |-> second.method_name,
                                documentation |-> second.documentation]
                  IN  /\ ret'.value = TRUE
                      /\ { n \in DOMAIN nodes' : Get(nodes'[n], "label", None) = "Method" }
                             = MemberNodes
                      /\ nodes'[m] = [label |-> "Method", name |-> second.method_name,
                                      class_name |-> second.class_name,
                                      documentation |-> second.documentation]
                      /\ CopiesIn(HasMethodEdge(class_node_id(first.class_name, first.package), m),
                                  edges') = 1
                      /\ CopiesIn(HasMethodEdge(class_node_id(second.class_name, second.package), m),
                                  edges') = 1
                      /\ EntriesNamed(nodes', edges', first.class_name, first.package,
                                      first.method_name) = {entry}
                      /\ EntriesNamed(nodes', edges', second.class_name, second.package,
                                      second.method_name) = {entry}]_vars

\* member m of A was created for the owner without package (documentation
\* x) and then for the owner in package p (documentation y): one node,
\* two owners, the attributes of the second call
C21_Witness ==
    /\ ret = [op |-> "create_method_node", value |-> TRUE]
    /\ Cardinality(MemberNodes) = 1
    /\ \E m \in MemberNodes :
           /\ nodes[m].documentation = <<"y">>
           /\ CopiesIn(HasMethodEdge(ClassAIdent, m), edges) = 1
           /\ CopiesIn(HasMethodEdge(ClassPAIdent, m), edges) = 1

\* the Type Nodes from which a HAS_METHOD edge goes to the member node m
Owners(m) == { e.u : e \in { x \in DOMAIN HasMethodBag : x.v = m } }

\* C22: every Member Node is owned by exactly one Type Node: all the
\* HAS_METHOD edges that point to it leave the same node.
C22_SingleOwner ==
    \A m \in MemberNodes : Cardinality(Owners(m)) = 1

\* the keys of the exact-match index that resolve to the node n
KeysOf(n) == { k \in DOMAIN class_key_index : class_key_index[k] = n }

\* C23: the exact-match index is a bijection between its keys and the Type
\* Nodes, and every key is the "package::name" of the attributes stored on
\* the node it maps to; two different (package, name) pairs never resolve
\* to the same node.
C23_ExactIndexBijection ==
    /\ Range(class_key_index) = TypeNodes
    /\ \A n \in TypeNodes :
           KeysOf(n) = { class_key(nodes[n].name, nodes[n].package) }

\* C24: the store only grows.  Across every step of every operation,
\* successful or not, the nodes, the bag of edge records, the keys of the
\* exact-match index and the node ids of every name-index entry of the
\* state before the step are still there after it.
C24_StoreGrows ==
    [][ /\ DOMAIN nodes \subseteq DOMAIN nodes'
        /\ edges \sqsubseteq edges'
        /\ DOMAIN class_key_index \subseteq DOMAIN class_key_index'
        /\ \A name \in DOMAIN class_name_index :
               /\ name \in DOMAIN class_name_index'
               /\ Range(class_name_index[name]) \subseteq Range(class_name_index'[name])
      ]_vars

\* a store with two nodes under one name and with edges, on which a write
\* has just been refused
C24_Witness ==
    /\ ret.op = "create_dependency_relationship"
    /\ ret.value = FALSE
    /\ edges # EmptyBag
    /\ \E name \in DOMAIN class_name_index : Len(class_name_index[name]) = 2

\* the edge record of a dependency fact
DependsOnEdge(a) ==
    [u |-> class_node_id(a.from_class, a.package_from),
     v |-> class_node_id(a.to_class, a.package_to),
     data |-> [type |-> "DEPENDS_ON", dependency_type |-> a.dependency_type]]

\* C25: create_dependency_relationship is not idempotent.  Every call with
\* both endpoints present returns True and adds exactly one edge record,
\* also when the same fact was reported before (k reports leave k parallel
\* edges); reporting a fact again changes no result of
\* find_related_classes.
C25_ParallelEdges ==
    [][\A a \in DependencyArgs :
           ( /\ create_dependency_relationship(a)
             /\ DependsOnEdge(a).u \in DOMAIN nodes
             /\ DependsOnEdge(a).v \in DOMAIN nodes )
               => /\ ret'.value = TRUE
                  /\ BagCardinality(edges') = BagCardinality(edges) + 1
                  /\ CopiesIn(DependsOnEdge(a), edges') = CopiesIn(DependsOnEdge(a), edges) + 1
                  /\ BagIn(DependsOnEdge(a), edges)
                         => \A name \in Names, max_depth \in Depths :
                                FindRelated(nodes', edges', class_name_index', name, max_depth)
                                    = FindRelated(nodes, edges, class_name_index, name, max_depth)
      ]_vars

\* a fact between two different types was reported twice: two parallel
\* edges, and the search finds the target once, at distance 1
C25_Witness ==
    /\ ret = [op |-> "create_dependency_relationship", value |-> TRUE]
    /\ \E e \in DependsOnEdges :
           /\ e.u # e.v
           /\ CopiesIn(e, edges) = 2
           /\ Len(FindRelated(nodes, edges, class_name_index, nodes[e.u].name, 1)) = 1

\* C26: the graph is well-formed in every state the operations of the store
\* reach: every DEPENDS_ON edge joins two existing Type Nodes, every
\* HAS_METHOD edge goes from an existing Type Node to an existing Member
\* Node, and every Member Node has an incoming HAS_METHOD edge.
C26_WellFormed ==
    /\ \A e \in DependsOnEdges : e.u \in TypeNodes /\ e.v \in TypeNodes
    /\ \A e \in DOMAIN HasMethodBag : e.u \in TypeNodes /\ e.v \in MemberNodes
    /\ \A m \in MemberNodes : OwningEdges(m) >= 1
    /\ \A e \in BagToSet(edges) :
           Get(e.data, "type", None) \in {"DEPENDS_ON", "HAS_METHOD"}

\* both kinds of edge are in the graph and a member with a missing owner
\* has just been rejected
C26_Witness ==
    /\ ret = [op |-> "create_method_node", value |-> FALSE]
    /\ DependsOnEdges # {}
    /\ DOMAIN HasMethodBag # {}
    /\ MemberNodes # {}

\* the identities of the types of a batch: its classes and its interfaces
BatchTypes(parse_results) ==
    { class_node_id(c.name, c.package) :
          c \in Range(parse_results.classes) \cup Range(parse_results.interfaces) }

\* C27: when _store_project_data passes a dependency of the batch to the
\* store, every type of the batch has been upserted, so a dependency whose
\* two endpoints are types of the batch is not rejected.
C27_TypesBeforeDependencies ==
    [][\A t \in Threads :
           ( /\ store_project_data_dependency(t)
             /\ frames[t].args.j
                    <= Len(find_dependencies(
                               frames[t].args.parse_results.classes[frames[t].args.i])) )
               => LET l == frames[t].args
                      dep == find_dependencies(l.parse_results.classes[l.i])[l.j]
                      c1 == class_node_id(dep.from, dep.package_from)
                      c2 == class_node_id(dep.to, dep.package_to)
                  IN  /\ BatchTypes(l.parse_results) \subseteq DOMAIN nodes
                      /\ {c1, c2} \subseteq BatchTypes(l.parse_results)
                             => ret'.value = TRUE
      ]_vars

\* the node ids listed under a name in the name index
ListedUnder(name) ==
    IF name \in DOMAIN class_name_index THEN Range(class_name_index[name]) ELSE {}

\* C28: the name index agrees with the graph: a node id is listed under a
\* name exactly when it is a Type Node whose stored name attribute is that
\* name.
C28_NameIndexAgrees ==
    \A name \in Names \cup DOMAIN class_name_index :
        ListedUnder(name) = { n \in TypeNodes : nodes[n].name = name }

\* C29: two create_class_node calls for the same (package, name) that
\* interleave between the membership test and the append leave the node id
\* once in the name-index entry: when no call is in progress, no entry of
\* the name index lists a node id twice.
C29_ListedOnce ==
    (\A t \in Threads : frames[t] = Idle)
        => \A name \in DOMAIN class_name_index :
               \A n \in Range(class_name_index[name]) :
                   Occurrences(class_name_index[name], n) = 1

\* the node ids find_related_classes reports for a name
RelatedMembers(g, es, name_index, class_name, max_depth) ==
    DOMAIN RelatedDict(g, es, name_index, class_name, max_depth)

\* C30: create_class_node for a type whose node is already in the graph
\* changes only the attributes of that node, its exact-match entry and the
\* name-index entry of its name: the set of nodes, the edges, the
\* attributes of the other nodes, the other exact-match entries and the
\* name-index entries of the other names are unchanged, and so is the
\* result of get_class_methods for the type.  When the (package, name) was
\* upserted before, the two indexes are unchanged as well, and so are the
\* nodes find_related_classes reports for the name.
C30_ReupsertFrame ==
    [][\A class_info \in ClassInfos :
           ( /\ create_class_node(class_info)
             /\ class_node_id(class_info.name, class_info.package) \in DOMAIN nodes )
               => LET node_id == class_node_id(class_info.name, class_info.package)
                      key == class_key(class_info.name, class_info.package)
                  IN  /\ edges' = edges
                      /\ DOMAIN nodes' = DOMAIN nodes
                      /\ \A n \in DOMAIN nodes \ {node_id} : nodes'[n] = nodes[n]
                      /\ \A k \in DOMAIN class_key_index \ {key} :
                             /\ k \in DOMAIN class_key_index'
                             /\ class_key_index'[k] = class_key_index[k]
                      /\ class_key_index'[key] = node_id
                      /\ \A name \in DOMAIN class_name_index \ {class_info.name} :
                             /\ name \in DOMAIN class_name_index'
                             /\ class_name_index'[name] = class_name_index[name]
                      /\ GetClassMethods(nodes', edges', class_info.name, class_info.package)
                             = GetClassMethods(nodes, edges, class_info.name, class_info.package)
                      /\ key \in DOMAIN class_key_index
                             => /\ class_key_index' = class_key_index
                                /\ class_name_index' = class_name_index
                                /\ \A max_depth \in Depths :
                                       RelatedMembers(nodes', edges', class_name_index',
                                                      class_info.name, max_depth)
                                           = RelatedMembers(nodes, edges, class_name_index,
                                                            class_info.name, max_depth)
      ]_vars

\* class A, which has a member and a dependency edge, has just been
\* upserted again with another documentation
C30_Witness ==
    /\ ret = [op |-> "create_class_node", value |-> TRUE]
    /\ TypeNodes = {ClassAIdent}
    /\ nodes[ClassAIdent].documentation = <<"y">>
    /\ \E m \in MemberNodes : BagIn(HasMethodEdge(ClassAIdent, m), edges)
    /\ \E e \in DependsOnEdges : e.u = ClassAIdent
    /\ Len(GetClassMethods(nodes, edges, <<"A">>, <<>>)) = 1

====
